---- MODULE Spec2Model ----
(***************************************************************************)
(* Model of python-script/firestore_event_to_ics.py: the Firestore -> .ics *)
(* export.  Time is counted in whole hours.  A datetime is a record        *)
(* [wall, fold, tz]: its wall-clock hour, its fold bit and its tzinfo      *)
(* ("naive" when tzinfo is None).                                          *)
(***************************************************************************)
EXTENDS Integers, Sequences, FiniteSets, TLC

\* ------------------------------------------------------------------ bounds
\* Instants and wall-clock hours of the inputs range over MinT..MaxT.
MinT == 20
MaxT == 27
\* Longest list of documents the store returns.
MaxDocs == 3
\* Largest number of values given to --types.
MaxTypes == 11

\* ------------------------------------------------------- calendar and zones
HoursPerDay == 24
\* timedelta of datetime.utcfromtimestamp(3600) - datetime.utcfromtimestamp(0), in hours
OneHour == 1
\* Firestore's limit on the values of an "in" filter
InLimit == 10

\* The zone with daylight saving that gettz resolves: standard offset StdOff,
\* offset DstOff between the instants DstStartUtc and DstEndUtc.
StdOff == 1
DstOff == 2
DstStartUtc == 21
DstEndUtc == 24
\* The offset of the fixed-offset zone an ISO string may carry ("+02:00").
FixedOff == 2

DstZone == "Zone/Dst"
FixedZone == "+02:00"
\* tzinfo values a datetime may carry
AwareZones == {"UTC", DstZone, FixedZone}
\* names given to --tz; gettz knows the first two
TzNames == {"UTC", DstZone, "Bogus"}
\* the zone of the machine running the tool (what datetime.fromtimestamp uses)
LocalZones == {"UTC", DstZone}

\* gettz(name): the tzinfo, or "None" for an unknown name
gettz(name) == IF name \in {"UTC", DstZone} THEN name ELSE "None"

\* dateutil's transition list in wall time: the transition instant plus the
\* standard (base) offset.
SpringWall == DstStartUtc + StdOff
FallWall == DstEndUtc + StdOff

\* tzfile.is_ambiguous at the fall-back transition: the wall time lies in the
\* hour that the clock shows twice.
IsAmbiguous(wall) == wall >= FallWall /\ wall < FallWall + (DstOff - StdOff)

\* tzinfo.utcoffset(dt) of an aware datetime with this wall time and fold
UtcOffset(tz, wall, fold) ==
    CASE tz = "UTC" -> 0
      [] tz = FixedZone -> FixedOff
      [] tz = DstZone ->
            IF wall < SpringWall THEN StdOff
            ELSE IF wall < FallWall THEN DstOff
            ELSE IF fold = 0 /\ IsAmbiguous(wall) THEN DstOff
            ELSE StdOff

\* the absolute instant (hours since the epoch) an aware datetime denotes
Instant(dt) == dt.wall - UtcOffset(dt.tz, dt.wall, dt.fold)

\* tzinfo.fromutc: the datetime of zone tz at instant u
FromUtc(tz, u) ==
    CASE tz = "UTC" -> [wall |-> u, fold |-> 0, tz |-> tz]
      [] tz = FixedZone -> [wall |-> u + FixedOff, fold |-> 0, tz |-> tz]
      [] tz = DstZone ->
            LET off == IF u < DstStartUtc THEN StdOff
                       ELSE IF u < DstEndUtc THEN DstOff ELSE StdOff
                w == u + off
            IN [wall |-> w,
                fold |-> IF u >= DstEndUtc /\ IsAmbiguous(w) THEN 1 ELSE 0,
                tz |-> tz]

\* datetime.fromtimestamp(t) with no tz argument: the naive local time of the
\* machine's zone
FromTimestamp(t, localtz) == [FromUtc(localtz, t) EXCEPT !.tz = "naive"]

\* dt.replace(tzinfo=tz): the same fields with the zone attached
ReplaceTz(dt, tz) == [dt EXCEPT !.tz = tz]

\* dt.astimezone(tz): the same instant in zone tz (the same object when the
\* zone is already tz)
AsTimezone(dt, tz) == IF dt.tz = tz THEN dt ELSE FromUtc(tz, Instant(dt))

\* dt + timedelta(hours=h): wall-clock arithmetic, the zone kept, fold reset
AddHours(dt, h) == [wall |-> dt.wall + h, fold |-> 0, tz |-> dt.tz]

\* dt.date()
DateOf(dt) == dt.wall \div HoursPerDay

\* ------------------------------------------------------------ date inputs
Times == MinT..MaxT
NaiveDts == [wall : Times, fold : {0}, tz : {"naive"}]
AwareDts == [wall : Times, fold : {0}, tz : AwareZones]
\* ISO-8601 suffixes: none, "Z", "+02:00", and a text dateutil cannot parse
TextSuffixes == {"", "Z", FixedZone}

NoneValue == [kind |-> "None"]
OtherValue == [kind |-> "Other"]
BadText == [kind |-> "Text", wall |-> MinT, suffix |-> "?"]
NativeValues == [kind : {"Native"}, dt : [wall : Times, fold : {0}, tz : {"UTC"}]]
DatetimeValues == [kind : {"Datetime"}, dt : NaiveDts \cup AwareDts]
NumberValues == [kind : {"Number"}, ts : Times]
TextValues == [kind : {"Text"}, wall : Times, suffix : TextSuffixes]
SupportedValues == NativeValues \cup DatetimeValues \cup NumberValues \cup TextValues
DateInputs == {NoneValue, OtherValue, BadText} \cup SupportedValues

\* dateutil.parser.parse: naive without a suffix, tzutc for "Z", tzoffset for
\* "+02:00"; raises on a text that is no date
ParseOk(v) == v.suffix \in TextSuffixes
DtParse(v) ==
    [wall |-> v.wall, fold |-> 0,
     tz |-> CASE v.suffix = "" -> "naive"
              [] v.suffix = "Z" -> "UTC"
              [] OTHER -> FixedZone]

\* value.timestamp() of an aware datetime
Timestamp(dt) == Instant(dt)

Returned(dt) == [tag |-> "dt", dt |-> dt]
ReturnedNone == [tag |-> "None"]
Raised(exc) == [tag |-> "raise", exc |-> exc]

\* mutant of Localize: a zoneless value read as UTC and converted
LocalizeFromUtc(dt, tzinfo) ==
    IF dt.tz = "naive" THEN FromUtc(tzinfo, dt.wall) ELSE AsTimezone(dt, tzinfo)

\* the tail of to_datetime: attach the zone to a naive value, convert an aware one
Localize(dt, tzinfo) ==
    IF dt.tz = "naive" THEN ReplaceTz(dt, tzinfo) ELSE AsTimezone(dt, tzinfo)

to_datetime(value, tzinfo, localtz) ==
    CASE value.kind = "None" -> ReturnedNone
      [] value.kind = "Native" ->
            Returned(Localize(FromTimestamp(Timestamp(value.dt), localtz), tzinfo))
      [] value.kind = "Datetime" -> Returned(Localize(value.dt, tzinfo))
      [] value.kind = "Number" ->
            Returned(Localize(FromTimestamp(value.ts, localtz), tzinfo))
      [] value.kind = "Text" ->
            IF ParseOk(value) THEN Returned(Localize(DtParse(value), tzinfo))
            ELSE Raised("ParserError")
      [] OTHER -> Raised("TypeError")

\* ------------------------------------------------------------ event records
Absent == "<absent>"
\* Python truthiness of an optional string field
Truthy(s) == s \notin {Absent, ""}

\* data.get("title") or data.get("name") or "Untitled"
ResolveTitle(data) ==
    IF Truthy(data.title) THEN data.title
    ELSE IF Truthy(data.name) THEN data.name
    ELSE "Untitled"

\* mutant of DefaultEnd: the timedelta(0) of line 59 left as the fallback
DefaultEndZero(start) == AddHours(start, 0)

\* the fallback end of a record without one: start + one hour
DefaultEnd(start) == AddHours(start, OneHour)

DateValue(dt) == [vtype |-> "DATE", date |-> DateOf(dt)]
DateTimeValue(dt) == [vtype |-> "DATE-TIME", dt |-> dt]

\* mutant of EventTimes: the end date of an all-day entry moved one day on
EventTimesShifted(all_day, start, end) ==
    IF all_day = "True"
    THEN [dtstart |-> DateValue(start),
          dtend |-> [vtype |-> "DATE", date |-> DateOf(end) + 1]]
    ELSE [dtstart |-> DateTimeValue(start), dtend |-> DateTimeValue(end)]

\* the dtstart/dtend pair of the entry: bare dates when all_day is truthy
EventTimes(all_day, start, end) ==
    IF all_day = "True"
    THEN [dtstart |-> DateValue(start), dtend |-> DateValue(end)]
    ELSE [dtstart |-> DateTimeValue(start), dtend |-> DateTimeValue(end)]

\* ev.add(name, data[name]) only for a truthy field
OptionalField(s) == IF Truthy(s) THEN s ELSE Absent

\* data.get("type", "event")
CategoryOf(data) == IF data.type = Absent THEN "event" ELSE data.type

\* the Event built from a record whose start and end are resolved
BuildEvent(data, start, end, tzinfo, uid, now) ==
    LET t == EventTimes(data.all_day, start, end)
    IN [summary |-> ResolveTitle(data),
        dtstart |-> t.dtstart,
        dtend |-> t.dtend,
        description |-> OptionalField(data.description),
        location |-> OptionalField(data.location),
        url |-> OptionalField(data.url),
        uid |-> uid,
        dtstamp |-> FromUtc(tzinfo, now),
        categories |-> <<CategoryOf(data)>>]

\* mutant of AddComponent: the entry put first
AddComponentFirst(cal, ev) == [cal EXCEPT !.events = <<ev>> \o @]

\* cal.add_component(ev)
AddComponent(cal, ev) == [cal EXCEPT !.events = Append(@, ev)]

\* mutant of add_event_to_calendar: a date that cannot be resolved skips the
\* record instead of raising
add_event_to_calendar_lenient(cal, data, tzinfo, localtz, uid, now) ==
    LET start == to_datetime(data.start, tzinfo, localtz)
        end == to_datetime(data.end, tzinfo, localtz)
    IN IF start.tag # "dt" \/ end.tag = "raise"
       THEN [ret |-> "False", exc |-> "", cal |-> cal]
       ELSE LET e == IF end.tag = "None" THEN DefaultEnd(start.dt) ELSE end.dt
            IN [ret |-> "True", exc |-> "",
                cal |-> AddComponent(cal, BuildEvent(data, start.dt, e, tzinfo, uid, now))]

\* add_event_to_calendar: [ret, exc, cal].  Both dates are resolved before
\* the start is tested.
add_event_to_calendar(cal, data, tzinfo, localtz, uid, now) ==
    LET start == to_datetime(data.start, tzinfo, localtz)
        end == to_datetime(data.end, tzinfo, localtz)
    IN IF start.tag = "raise" THEN [ret |-> "raise", exc |-> start.exc, cal |-> cal]
       ELSE IF end.tag = "raise" THEN [ret |-> "raise", exc |-> end.exc, cal |-> cal]
       ELSE IF start.tag = "None" THEN [ret |-> "False", exc |-> "", cal |-> cal]
       ELSE LET e == IF end.tag = "None" THEN DefaultEnd(start.dt) ELSE end.dt
            IN [ret |-> "True", exc |-> "",
                cal |-> AddComponent(cal, BuildEvent(data, start.dt, e, tzinfo, uid, now))]

\* Calendar() with prodid and version added
NewCalendar ==
    [prodid |-> "-//Firestore Export//Events to ICS//EN", version |-> "2.0", events |-> <<>>]
NoCalendar == [prodid |-> "", version |-> "", events |-> <<>>]

\* icalendar's rendering of a date or date-time property: a DATE value, or the
\* local time with its TZID parameter (the fold bit is not written)
PropToIcal(p) ==
    IF p.vtype = "DATE" THEN [value |-> "DATE", date |-> p.date, time |-> 0, tzid |-> ""]
    ELSE [value |-> "DATE-TIME", date |-> DateOf(p.dt),
          time |-> p.dt.wall % HoursPerDay, tzid |-> p.dt.tz]

EventToIcal(ev) ==
    [ev EXCEPT !.dtstart = PropToIcal(@), !.dtend = PropToIcal(@),
               !.dtstamp = PropToIcal(DateTimeValue(@))]

\* cal.to_ical(): the header, then one VEVENT per entry in order
to_ical(cal) ==
    [prodid |-> cal.prodid, version |-> cal.version,
     vevents |-> [k \in 1..Len(cal.events) |-> EventToIcal(cal.events[k])]]

\* --------------------------------------------------------------- documents
Doc(title, name, start, end, all_day, type) ==
    [title |-> title, name |-> name, start |-> start, end |-> end,
     all_day |-> all_day, description |-> Absent, location |-> Absent,
     url |-> Absent, type |-> type]
NoDoc == Doc(Absent, Absent, NoneValue, NoneValue, Absent, Absent)

\* every record one call of add_event_to_calendar is tried on
RecDocs ==
    {Doc("Sync", Absent, s, e, a, "meeting") :
        s \in DateInputs, e \in DateInputs, a \in {Absent, "True", "False"}}

\* the documents the store may return in a run
DocPool ==
    {Doc("Sync", Absent, [kind |-> "Text", wall |-> MinT + 1, suffix |-> ""],
         NoneValue, Absent, "meeting"),
     Doc(Absent, "Trip", [kind |-> "Number", ts |-> MaxT],
         [kind |-> "Text", wall |-> MaxT, suffix |-> "Z"], "True", Absent),
     [Doc("Later", "Other", NoneValue, NoneValue, "False", "meeting")
        EXCEPT !.description = "no start yet", !.url = ""],
     Doc("Broken", Absent, OtherValue, NoneValue, Absent, "meeting"),
     Doc("", "", NoneValue, BadText, Absent, "week-end")}

\* sequences of at most n elements of S
RECURSIVE SeqsUpTo(_, _)
SeqsUpTo(S, n) ==
    IF n = 0 THEN {<<>>}
    ELSE LET shorter == SeqsUpTo(S, n - 1)
         IN shorter \cup {Append(q, x) : q \in {r \in shorter : Len(r) = n - 1}, x \in S}

\* ------------------------------------------------------------------- state
VARIABLES
    pc,        \* where main is
    args,      \* the command line
    tzinfo,    \* gettz(args.tz)
    localtz,   \* the zone of the machine
    app,       \* the Firebase app
    query,     \* the query built on the collection
    docs,      \* list(query.stream())
    idx,       \* records of docs the loop has passed
    doc,       \* the record given to add_event_to_calendar
    ret,       \* what add_event_to_calendar returned: "True", "False", "raise"
    cal,       \* the Calendar
    count,     \* events counted by main
    uuids,     \* uuid4() calls so far
    clock,     \* the instant datetime.now reads
    queries,   \* query.stream() calls so far
    opens,     \* open(args.output, "wb") calls so far
    file,      \* the content of the output file
    stderr,    \* the message printed to standard error
    stdout,    \* the message printed to standard output
    exitCode,  \* the exit code of the process, -1 while it runs
    exc,       \* the exception that ended the run
    value,     \* the value given to to_datetime
    result     \* what to_datetime returned

vars == <<pc, args, tzinfo, localtz, app, query, docs, idx, doc, ret, cal, count,
          uuids, clock, queries, opens, file, stderr, stdout, exitCode, exc,
          value, result>>

\* what was in the output file before the run
OldFile == [prodid |-> "previous export", version |-> "2.0", vevents |-> <<>>]
NoQuery == [field |-> "", op |-> "", values |-> <<>>, order_by |-> "None"]

\* --types v1 .. vn
TypeList(n) == [k \in 1..n |-> k]

ArgSets ==
    [collection : {"events"}, types : {TypeList(n) : n \in 0..MaxTypes},
     output : {"events.ics"}, tz : TzNames, where_field : {"type"},
     where_op : {"==", "in", "!="}, order_by : {"None", "start"},
     credentials : {"None", "key.json"}]

Idle ==
    /\ app = "None" /\ query = NoQuery /\ idx = 0
    /\ doc = NoDoc /\ ret = "None" /\ count = 0 /\ uuids = 0
    /\ clock = MaxT /\ queries = 0 /\ opens = 0 /\ file = OldFile
    /\ stderr = "" /\ stdout = <<>> /\ exitCode = -1 /\ exc = ""
    /\ result = ReturnedNone

Init ==
    /\ pc = "parse_args"
    /\ args \in ArgSets
    /\ localtz \in LocalZones
    /\ tzinfo = "None"
    /\ Idle
    /\ docs = <<>>
    /\ cal = NoCalendar
    /\ value = NoneValue

\* ----------------------------------------------------------------- main
\* sys.exit(2) after a message on standard error
Exit2(msg) ==
    /\ stderr' = msg
    /\ exitCode' = 2
    /\ pc' = "exited"

\* mutant of Crash: every failure mapped to exit code 2
CrashExit2(e) ==
    /\ exc' = e
    /\ exitCode' = 2
    /\ pc' = "crashed"

\* an exception nobody catches: the traceback, exit code 1
Crash(e) ==
    /\ exc' = e
    /\ exitCode' = 1
    /\ pc' = "crashed"

\* ap.parse_args(): --types takes one value or more (nargs="+"), --where-op
\* one of its choices; argparse exits with code 2 otherwise
ParseArgs ==
    /\ pc = "parse_args"
    /\ IF Len(args.types) = 0 \/ args.where_op \notin {"==", "in"}
       THEN Exit2("usage")
       ELSE pc' = "gettz" /\ UNCHANGED <<stderr, exitCode>>
    /\ UNCHANGED <<args, tzinfo, localtz, app, query, docs, idx, doc, ret, cal, count,
                   uuids, clock, queries, opens, file, stdout, exc, value, result>>

\* tzinfo = gettz(args.tz); an unknown zone ends the run
ResolveTz ==
    /\ pc = "gettz"
    /\ tzinfo' = gettz(args.tz)
    /\ IF gettz(args.tz) = "None"
       THEN Exit2("Unknown timezone")
       ELSE pc' = "init_app" /\ UNCHANGED <<stderr, exitCode>>
    /\ UNCHANGED <<args, localtz, app, query, docs, idx, doc, ret, cal, count,
                   uuids, clock, queries, opens, file, stdout, exc, value, result>>

\* firebase_admin.initialize_app and firestore.client(); a credentials file
\* that cannot be read makes credentials.Certificate raise
InitApp ==
    /\ pc = "init_app"
    /\ \/ /\ app' = IF args.credentials = "None" THEN "default" ELSE "certificate"
          /\ pc' = "build_query"
          /\ UNCHANGED <<exc, exitCode>>
       \/ /\ args.credentials # "None"
          /\ Crash("IOError")
          /\ UNCHANGED app
    /\ UNCHANGED <<args, tzinfo, localtz, query, docs, idx, doc, ret, cal, count,
                   uuids, clock, queries, opens, file, stderr, stdout, value, result>>

\* mutant of TypesError: the "in" limit off by one
TypesErrorOffByOne(a) ==
    IF a.where_op = "=="
    THEN IF Len(a.types) # 1
         THEN "With --where-op == you must pass exactly one value to --types."
         ELSE ""
    ELSE IF Len(a.types) >= InLimit
         THEN "Firestore 'in' queries support up to 10 values. Please reduce --types."
         ELSE ""

\* the checks on the number of --types values
TypesError(a) ==
    IF a.where_op = "=="
    THEN IF Len(a.types) # 1
         THEN "With --where-op == you must pass exactly one value to --types."
         ELSE ""
    ELSE IF Len(a.types) > InLimit
         THEN "Firestore 'in' queries support up to 10 values. Please reduce --types."
         ELSE ""

\* col_ref.where(...), then order_by when asked
QueryOf(a) ==
    [field |-> a.where_field, op |-> a.where_op,
     values |-> IF a.where_op = "==" THEN <<a.types[1]>> ELSE a.types,
     order_by |-> a.order_by]

BuildQuery ==
    /\ pc = "build_query"
    /\ IF TypesError(args) # ""
       THEN Exit2(TypesError(args)) /\ UNCHANGED query
       ELSE /\ query' = QueryOf(args)
            /\ pc' = "stream"
            /\ UNCHANGED <<stderr, exitCode>>
    /\ UNCHANGED <<args, tzinfo, localtz, app, docs, idx, doc, ret, cal, count,
                   uuids, clock, queries, opens, file, stdout, exc, value, result>>

\* docs = list(query.stream()): whatever the store returns, or its error
Stream ==
    /\ pc = "stream"
    /\ queries' = queries + 1
    /\ \/ /\ docs' \in SeqsUpTo(DocPool, MaxDocs)
          /\ pc' = "new_calendar"
          /\ UNCHANGED <<exc, exitCode>>
       \/ /\ Crash("RetrievalError")
          /\ UNCHANGED docs
    /\ UNCHANGED <<args, tzinfo, localtz, app, query, idx, doc, ret, cal, count,
                   uuids, clock, opens, file, stderr, stdout, value, result>>

\* cal = Calendar() with its two header fields; count = 0
CreateCalendar ==
    /\ pc = "new_calendar"
    /\ cal' = NewCalendar
    /\ count' = 0
    /\ pc' = "loop"
    /\ UNCHANGED <<args, tzinfo, localtz, app, query, docs, idx, doc, ret,
                   uuids, clock, queries, opens, file, stderr, stdout, exitCode, exc,
                   value, result>>

\* what one call of add_event_to_calendar leaves behind
CallAddEvent(d) ==
    LET r == add_event_to_calendar(cal, d, tzinfo, localtz, uuids + 1, clock)
    IN /\ doc' = d
       /\ ret' = r.ret
       /\ cal' = r.cal
       /\ uuids' = IF r.ret = "True" THEN uuids + 1 ELSE uuids

\* mutant of Counted: every record counted, skipped or not
CountedAlways(c, r) == c + 1

\* the count after a call that returned r
Counted(c, r) == IF r = "True" THEN c + 1 ELSE c

\* one turn of "for doc in docs": count += 1 when the record was added
LoopStep ==
    /\ pc = "loop"
    /\ idx < Len(docs)
    /\ CallAddEvent(docs[idx + 1])
    /\ IF ret' = "raise"
       THEN /\ Crash(add_event_to_calendar(cal, docs[idx + 1], tzinfo, localtz,
                                           uuids + 1, clock).exc)
            /\ UNCHANGED <<idx, count>>
       ELSE /\ idx' = idx + 1
            /\ count' = Counted(count, ret')
            /\ UNCHANGED <<pc, exc, exitCode>>
    /\ UNCHANGED <<args, tzinfo, localtz, app, query, docs, clock, queries, opens,
                   file, stderr, stdout, value, result>>

\* with open(args.output, "wb") as f: f.write(cal.to_ical())
WriteFile ==
    /\ pc = "loop"
    /\ idx = Len(docs)
    /\ opens' = opens + 1
    /\ file' = to_ical(cal)
    /\ pc' = "report"
    /\ UNCHANGED <<args, tzinfo, localtz, app, query, docs, idx, doc, ret, cal, count,
                   uuids, clock, queries, stderr, stdout, exitCode, exc, value, result>>

\* print(f"Wrote {count} events to {args.output}"), then the normal exit
Report ==
    /\ pc = "report"
    /\ stdout' = <<"Wrote", count, "events to", args.output>>
    /\ exitCode' = 0
    /\ pc' = "done"
    /\ UNCHANGED <<args, tzinfo, localtz, app, query, docs, idx, doc, ret, cal, count,
                   uuids, clock, queries, opens, file, stderr, exc, value, result>>

Next ==
    \/ ParseArgs
    \/ ResolveTz
    \/ InitApp
    \/ BuildQuery
    \/ Stream
    \/ CreateCalendar
    \/ LoopStep
    \/ WriteFile
    \/ Report

Spec == Init /\ [][Next]_vars

\* ------------------------------------------- one call of add_event_to_calendar
InitRec ==
    /\ pc = "call"
    /\ args \in {a \in ArgSets : Len(a.types) = 1 /\ a.where_op = "in"
                    /\ a.order_by = "None" /\ a.credentials = "None"
                    /\ gettz(a.tz) # "None"}
    /\ tzinfo = gettz(args.tz)
    /\ localtz \in LocalZones
    /\ Idle
    /\ cal = NewCalendar
    /\ docs \in {<<d>> : d \in RecDocs}
    /\ value = NoneValue

CallOnRecord ==
    /\ pc = "call"
    /\ CallAddEvent(docs[1])
    /\ count' = Counted(count, ret')
    /\ pc' = "returned"
    /\ UNCHANGED <<args, tzinfo, localtz, app, query, docs, idx, clock, queries, opens,
                   file, stderr, stdout, exitCode, exc, value, result>>

NextRec == CallOnRecord

SpecRec == InitRec /\ [][NextRec]_vars

\* ----------------------------------------------------- one call of to_datetime
InitConv ==
    /\ pc = "call"
    /\ args \in {a \in ArgSets : Len(a.types) = 1 /\ a.where_op = "in"
                    /\ a.order_by = "None" /\ a.credentials = "None"
                    /\ gettz(a.tz) # "None"}
    /\ tzinfo = gettz(args.tz)
    /\ localtz \in LocalZones
    /\ Idle
    /\ docs = <<>>
    /\ cal = NoCalendar
    /\ value \in DateInputs

CallToDatetime ==
    /\ pc = "call"
    /\ result' = to_datetime(value, tzinfo, localtz)
    /\ pc' = "returned"
    /\ UNCHANGED <<args, tzinfo, localtz, app, query, docs, idx, doc, ret, cal, count,
                   uuids, clock, queries, opens, file, stderr, stdout, exitCode, exc,
                   value>>

NextConv == CallToDatetime

SpecConv == InitConv /\ [][NextConv]_vars

\* ------------------------------------------------------------------ claims
\* the start and the end a returned call resolved for the record it was given
StartOf(d) == to_datetime(d.start, tzinfo, localtz)
EndOf(d) == to_datetime(d.end, tzinfo, localtz)
HasStart(d) == d.start.kind # "None"
Unsupported(d) == d.start.kind = "Other" \/ d.end.kind = "Other"
Unparsable(d) == d.start = BadText \/ d.end = BadText

C2_NoStartAlwaysSkipped ==
    (pc = "returned" /\ ~HasStart(doc)) =>
        ret = "False" /\ cal.events = <<>> /\ count = 0 /\ uuids = 0

\* C4: an epoch number or a native timestamp comes back as the same absolute
\* instant, in the target zone, whatever the zone of the machine.
C4_EpochKeepsInstant ==
    (pc = "returned" /\ value.kind \in {"Number", "Native"}) =>
        /\ result.tag = "dt"
        /\ result.dt.tz = tzinfo
        /\ Instant(result.dt) =
              (IF value.kind = "Number" THEN value.ts ELSE value.dt.wall)

\* C5: a zoneless datetime or ISO string keeps its wall-clock fields and gets
\* the configured zone attached; one that carries a zone comes back as the
\* same instant expressed in the configured zone.
C5_NaiveAssignedAwareConverted ==
    (pc = "returned" /\ (value.kind = "Datetime" \/ value \in TextValues)) =>
        LET given == IF value.kind = "Datetime" THEN value.dt
                     ELSE [wall |-> value.wall, fold |-> 0,
                           tz |-> IF value.suffix = "" THEN "naive"
                                  ELSE IF value.suffix = "Z" THEN "UTC" ELSE FixedZone]
        IN /\ result.tag = "dt"
           /\ result.dt.tz = tzinfo
           /\ IF given.tz = "naive"
              THEN result.dt.wall = given.wall /\ result.dt.fold = given.fold
              ELSE result.dt.wall - UtcOffset(tzinfo, result.dt.wall, result.dt.fold)
                     = given.wall - UtcOffset(given.tz, given.wall, given.fold)

\* C5 witness: a zoneless ISO string resolved in the zone with daylight saving
\* kept its wall-clock hour, which is not the hour of that instant read as UTC.
C5_Witness ==
    /\ pc = "returned" /\ value \in TextValues /\ value.suffix = ""
    /\ tzinfo = DstZone
    /\ result.dt.wall = value.wall
    /\ result.dt # FromUtc(tzinfo, value.wall)

AcceptedTypes(a) ==
    \/ a.where_op = "==" /\ Len(a.types) = 1
    \/ a.where_op = "in" /\ Len(a.types) >= 1 /\ Len(a.types) <= 10
\* the same, read as "any count up to and including 10" for "in"
AcceptedTypesAnyCount(a) ==
    \/ a.where_op = "==" /\ Len(a.types) = 1
    \/ a.where_op = "in" /\ Len(a.types) <= 10
Started == {"stream", "new_calendar", "loop", "report", "done"}

\* C3 (as amended): with "==" the run reaches the query only with exactly one
\* value, with "in" only with one to ten values; every other count ends the
\* run with exit code 2 (zero values at the argument parser, the others at
\* the checks before the query), and an accepted count never does.
C3_TypesValidation ==
    /\ [](pc \in Started \/ queries > 0 => AcceptedTypes(args))
    /\ [][/\ (pc = "build_query" /\ AcceptedTypes(args)) =>
                (pc' = "stream" /\ exitCode' = -1 /\ stderr' = "")
          /\ (pc = "build_query" /\ ~AcceptedTypes(args)) =>
                (pc' = "exited" /\ exitCode' = 2 /\ stderr' = TypesError(args)
                 /\ stderr' # "")
          /\ (pc = "parse_args" /\ args.where_op \in {"==", "in"}) =>
                IF Len(args.types) = 0
                THEN pc' = "exited" /\ exitCode' = 2
                ELSE pc' = "gettz" /\ exitCode' = -1]_vars

\* C3 witness: ten values with "in" passed the checks and the query is built.
C3_Witness ==
    /\ pc = "stream" /\ args.where_op = "in" /\ Len(args.types) = 10
    /\ query.values = args.types

\* C3 as stated: with "in" any count up to and including 10 gets through, so
\* a run that ends with exit code 2 for its arguments has a rejected count.
C3_AsStated ==
    (pc = "exited" /\ exitCode = 2 /\ stderr # "Unknown timezone"
        /\ args.where_op \in {"==", "in"}) => ~AcceptedTypesAnyCount(args)

RECURSIVE WithStart(_, _)
WithStart(ds, n) ==
    IF n = 0 THEN <<>>
    ELSE IF ds[n].start.kind = "None" THEN WithStart(ds, n - 1)
    ELSE Append(WithStart(ds, n - 1), ds[n])

\* C7: all through the loop and at the end of the run the count is the number
\* of entries of the calendar and the number of records passed that had a
\* start; the count is what is reported; no records give the header alone,
\* no entry and a count of 0.
C7_CountIsEntries ==
    /\ pc \in {"loop", "report", "done", "crashed"} /\ queries = 1 /\ exc # "RetrievalError" =>
          /\ count = Len(cal.events)
          /\ count = Cardinality({k \in 1..idx : docs[k].start.kind # "None"})
    /\ pc = "done" =>
          /\ stdout = <<"Wrote", Len(file.vevents), "events to", args.output>>
          /\ file.prodid = "-//Firestore Export//Events to ICS//EN"
          /\ file.version = "2.0"
          /\ docs = <<>> => (file.vevents = <<>> /\ stdout[2] = 0)

\* C7 witness: of two records one had no start; one entry, a count of 1.
C7_Witness ==
    /\ pc = "done" /\ Len(docs) = 2 /\ count = 1 /\ Len(file.vevents) = 1
    /\ stdout[2] = 1

\* C9: a run that ends with exit code 2 never queried the store and never
\* opened the output file, which is as it was.
C9_Exit2BeforeFetch ==
    exitCode = 2 =>
        /\ queries = 0 /\ docs = <<>>
        /\ opens = 0 /\ file = OldFile
        /\ stderr # ""

\* C9 witness: the value count was rejected after the app was initialised.
C9_Witness ==
    /\ exitCode = 2 /\ app # "None" /\ stderr = TypesError(args) /\ stderr # ""
    /\ queries = 0 /\ opens = 0

\* C10: the entries are the fetched records that have a start, in the order
\* the store returned them, each once; the file lists them in that order;
\* the store is queried once.
C10_StoreOrderKept ==
    /\ queries <= 1
    /\ pc \in {"new_calendar", "loop", "report", "done"} => queries = 1
    /\ pc \in {"loop", "report", "done"} =>
          LET kept == WithStart(docs, idx)
          IN /\ Len(cal.events) = Len(kept)
             /\ \A k \in 1..Len(kept) :
                   /\ cal.events[k].summary =
                         (IF kept[k].title \notin {Absent, ""} THEN kept[k].title
                          ELSE kept[k].name)
                   /\ cal.events[k].uid = k
    /\ pc = "done" =>
          [k \in 1..Len(file.vevents) |-> file.vevents[k].summary]
             = [k \in 1..Len(cal.events) |-> cal.events[k].summary]

\* C10 witness: two different records with a start, a record without one
\* between them or not, came out in the store's order.
C10_Witness ==
    /\ pc = "done" /\ Len(cal.events) = 2
    /\ cal.events[1].summary = "Trip" /\ cal.events[2].summary = "Sync"
    /\ docs[1].name = "Trip"

====
